---- MODULE Spec2Model ----
(***************************************************************************)
(* A state-machine model of megfile's protocol dispatch ("smart") layer    *)
(* (src/template/smart.py) and of its HTTP backend (src/megfile/http.py).  *)
(*                                                                         *)
(* Strings are sequences of one-character strings, so that slicing,        *)
(* prefix tests and URL scheme extraction are computed, not assumed.       *)
(* A path-like value is a record [type, text]: type is the Python type     *)
(* ("int", "str", "PurePath", or "other" for anything else), text the      *)
(* characters of a str or of a PurePath's string form (empty for the       *)
(* others).                                                                *)
(***************************************************************************)
EXTENDS Integers, Sequences, FiniteSets, TLC

VARIABLES
  _copy_funcs,  \* smart.py:20  src protocol -> (dst protocol -> copy function)
  pc,           \* position of the operation in progress
  args,         \* arguments (and environment answers) of that operation
  ret,          \* its outcome: the value returned or the error raised
  effects,      \* backend calls issued so far, in order
  attempts,     \* http: requests sent so far for the call in progress
  fsrc_pos,     \* _default_copy_func: read position of fsrc
  buf,          \* _default_copy_func: the chunk last read, not yet written
  fdst,         \* _default_copy_func: chunks written to fdst, in order
  callbacks     \* arguments the progress callback was invoked with, in order

stream_vars == <<fsrc_pos, buf, fdst, callbacks>>
vars == <<_copy_funcs, pc, args, ret, effects, attempts, stream_vars>>

(***************************************************************************)
(* Characters and strings                                                  *)
(***************************************************************************)
LowerLetters == {"a", "b", "c", "d", "f", "h", "k", "p", "s", "t", "x"}
UpperLetters == {"S", "H", "T", "P"}
Digits == {"3"}

\* urllib.parse.scheme_chars: letters, digits and "+-."
scheme_chars == LowerLetters \cup UpperLetters \cup Digits \cup {"+", "-", "."}

\* str.lower() on one character
lower_char(c) ==
  CASE c = "S" -> "s"
    [] c = "H" -> "h"
    [] c = "T" -> "t"
    [] c = "P" -> "p"
    [] OTHER -> c

lower(s) == [i \in 1..Len(s) |-> lower_char(s[i])]

\* str.find(c), 1-based; 0 when c does not occur
find(s, c) ==
  IF \E i \in 1..Len(s) : s[i] = c
  THEN CHOOSE i \in 1..Len(s) : s[i] = c /\ \A j \in 1..(i - 1) : s[j] # c
  ELSE 0

\* str.startswith
startswith(s, p) == Len(s) >= Len(p) /\ SubSeq(s, 1, Len(p)) = p

\* s[n:]
slice_from(s, n) == SubSeq(s, n + 1, Len(s))

RECURSIVE lstrip(_, _)
\* str.lstrip(c)
lstrip(s, c) == IF s # <<>> /\ Head(s) = c THEN lstrip(Tail(s), c) ELSE s

FS == <<"f", "s">>
S3 == <<"s", "3">>
HTTP == <<"h", "t", "t", "p">>
HTTPS == <<"h", "t", "t", "p", "s">>

(***************************************************************************)
(* urlsplit(path).scheme as CPython computes it: the text before the first *)
(* ':' when that text is not empty, starts with a letter and holds only    *)
(* scheme characters, lower-cased; otherwise the empty string.             *)
(***************************************************************************)
urlsplit_scheme(url) ==
  LET i == find(url, ":")
  IN IF /\ i > 1
        /\ url[1] \in LowerLetters \cup UpperLetters
        /\ \A j \in 1..(i - 1) : url[j] \in scheme_chars
     THEN lower(SubSeq(url, 1, i - 1))
     ELSE <<>>

Raise(e) == [err |-> e, protocol |-> <<>>]
Return(p) == [err |-> "none", protocol |-> p]

\* The variant that forgets to fold https into http.
_extract_protocol_nofold(path) ==
  IF path.type = "int" THEN Return(FS)
  ELSE IF path.type = "str"
       THEN LET protocol == urlsplit_scheme(path.text)
            IN Return(IF protocol = <<>> THEN FS ELSE protocol)
       ELSE IF path.type = "PurePath" THEN Return(FS)
            ELSE Raise("ProtocolNotFoundError")

\* smart.py:106-120
_extract_protocol(path) ==
  IF path.type = "int" THEN Return(FS)
  ELSE IF path.type = "str"
       THEN LET scheme == urlsplit_scheme(path.text)
                protocol == IF scheme = <<>> THEN FS ELSE scheme
            IN Return(IF protocol = HTTPS THEN HTTP ELSE protocol)
       ELSE IF path.type = "PurePath" THEN Return(FS)
            ELSE Raise("ProtocolNotFoundError")

Str(t) == [type |-> "str", text |-> t]
PurePathOf(t) == [type |-> "PurePath", text |-> t]
Fd(n) == [type |-> "int", text |-> <<>>, fd |-> n]
OtherObject == [type |-> "other", text |-> <<>>]

(***************************************************************************)
(* Inputs of the protocol classification: strings built from a scheme     *)
(* part, a separator and a rest, bare strings, descriptors, path objects   *)
(* and an object of another type.                                          *)
(***************************************************************************)
MaxFd == 2

SchemeParts ==
  { S3, <<"S", "3">>, HTTP, HTTPS, <<"H", "T", "T", "P", "S">>,
    <<"f", "t", "p">>, <<"c">>, FS, <<"3", "s">>, <<"s", "{">> }
Separators == { <<":", "/", "/">>, <<":", "/">>, <<":">> }
Rests == { <<>>, <<"b">>, <<"b", "/", "k">> }
BareTexts ==
  { <<>>, <<"a">>, <<"/", "t", "/", "a">>, <<"/", "a", ":", "b">>,
    <<":", "a">>, <<"s", "3">>, <<".", "/", "a">> }

StrTexts == {p \o s \o r : p \in SchemeParts, s \in Separators, r \in Rests} \cup BareTexts
PurePathTexts == { <<"/", "t", "/", "a">>, <<"a">>, <<"s", "3", ":", "/", "b">>, <<"c", ":", "/", "a">> }

ProtocolInputs ==
  {Str(t) : t \in StrTexts} \cup {PurePathOf(t) : t \in PurePathTexts}
    \cup {Fd(n) : n \in 0..MaxFd} \cup {OtherObject}

NoCall == [op |-> "none"]
NoRet == [err |-> "unset"]
NoBuf == [off |-> 0, len |-> 0]

InitIdle ==
  /\ effects = <<>>
  /\ attempts = 0
  /\ fsrc_pos = 0
  /\ buf = NoBuf
  /\ fdst = <<>>
  /\ callbacks = <<>>

(***************************************************************************)
(* Specification of the protocol classification                            *)
(***************************************************************************)
BuiltinCopyFuncs ==
  (S3 :> (S3 :> "s3_copy" @@ FS :> "s3_download"))
    @@ (FS :> (S3 :> "s3_upload" @@ FS :> "fs_copy"))

InitProtocol ==
  /\ _copy_funcs = BuiltinCopyFuncs
  /\ pc = "call"
  /\ args \in {[op |-> "_extract_protocol", path |-> p] : p \in ProtocolInputs}
  /\ ret = NoRet
  /\ InitIdle

ExtractProtocol ==
  /\ pc = "call"
  /\ args.op = "_extract_protocol"
  /\ ret' = _extract_protocol(args.path)
  /\ pc' = "done"
  /\ UNCHANGED <<_copy_funcs, args, effects, attempts, stream_vars>>

NextProtocol == ExtractProtocol

SpecProtocol == InitProtocol /\ [][NextProtocol]_vars

contains(s, c) == \E i \in 1..Len(s) : s[i] = c

ClosedTags == {FS, S3, HTTP}

\* C7 (as stated): every accepted input (descriptor, string, path object) is
\* classified as one of fs, s3, http.
C7_TagAlwaysInClosedSet ==
  (pc = "done" /\ args.op = "_extract_protocol" /\ args.path.type \in {"int", "str", "PurePath"})
    => (ret.err = "none" /\ ret.protocol \in ClosedTags)

\* C7 (amended): a descriptor or path object gives fs, a string without ':'
\* gives fs, an s3:// string gives s3, an http:// or https:// string gives http,
\* any other type raises ProtocolNotFoundError; a tag outside {fs, s3, http}
\* comes only from a string and is then the lower-cased text before its first ':'.
C7_ExtractProtocolCases ==
  (pc = "done" /\ args.op = "_extract_protocol") =>
    LET p == args.path
    IN /\ p.type \in {"int", "PurePath"} => ret = Return(FS)
       /\ p.type = "other" => ret.err = "ProtocolNotFoundError"
       /\ p.type = "str" => ret.err = "none"
       /\ (p.type = "str" /\ ~contains(p.text, ":")) => ret.protocol = FS
       /\ (p.type = "str" /\ startswith(p.text, S3 \o <<":", "/", "/">>)) => ret.protocol = S3
       /\ (p.type = "str" /\ startswith(p.text, HTTP \o <<":", "/", "/">>)) => ret.protocol = HTTP
       /\ (p.type = "str" /\ startswith(p.text, HTTPS \o <<":", "/", "/">>)) => ret.protocol = HTTP
       /\ (ret.err = "none" /\ ret.protocol \notin ClosedTags) =>
            /\ p.type = "str"
            /\ contains(p.text, ":")
            /\ ret.protocol = lower(SubSeq(p.text, 1, find(p.text, ":") - 1))
            /\ ret.protocol # HTTPS

\* C7 witness: an https:// string has been classified as http.
C7_Witness ==
  /\ pc = "done"
  /\ args.op = "_extract_protocol"
  /\ args.path.type = "str"
  /\ startswith(args.path.text, HTTPS \o <<":", "/", "/">>)
  /\ ret = Return(HTTP)

(***************************************************************************)
(* The copy-function registry                                              *)
(***************************************************************************)
RegistryProtocols == {FS, S3, HTTP}
UserCopyFuncs == {"user_copy_a", "user_copy_b", "None"}

has_copy_func(funcs, src_protocol, dst_protocol) ==
  src_protocol \in DOMAIN funcs /\ dst_protocol \in DOMAIN funcs[src_protocol]

\* dict insertion: _copy_funcs[src_protocol][dst_protocol] = copy_func
set_copy_func(funcs, src_protocol, dst_protocol, copy_func) ==
  LET dst_dict == IF src_protocol \in DOMAIN funcs THEN funcs[src_protocol] ELSE <<>>
  IN [p \in DOMAIN funcs \cup {src_protocol} |->
        IF p = src_protocol THEN (dst_protocol :> copy_func) @@ dst_dict ELSE funcs[p]]

\* The variant that reports the duplicate but has already replaced the entry.
register_copy_func_overwrite(funcs, src_protocol, dst_protocol, copy_func) ==
  [ err |-> IF has_copy_func(funcs, src_protocol, dst_protocol) THEN "ValueError" ELSE "none",
    funcs |-> set_copy_func(funcs, src_protocol, dst_protocol, copy_func) ]

\* smart.py:60-85: the outcome and the registry after the call
register_copy_func(funcs, src_protocol, dst_protocol, copy_func) ==
  IF has_copy_func(funcs, src_protocol, dst_protocol)
  THEN [err |-> "ValueError", funcs |-> funcs]
  ELSE [err |-> "none", funcs |-> set_copy_func(funcs, src_protocol, dst_protocol, copy_func)]

InitRegistry ==
  /\ _copy_funcs = BuiltinCopyFuncs
  /\ pc = "idle"
  /\ args = NoCall
  /\ ret = NoRet
  /\ InitIdle

RegisterCopyFunc ==
  /\ pc = "idle"
  /\ \E src_protocol \in RegistryProtocols, dst_protocol \in RegistryProtocols,
        copy_func \in UserCopyFuncs :
       LET r == register_copy_func(_copy_funcs, src_protocol, dst_protocol, copy_func)
       IN /\ args' = [op |-> "register_copy_func", src_protocol |-> src_protocol,
                      dst_protocol |-> dst_protocol, copy_func |-> copy_func]
          /\ ret' = [err |-> r.err]
          /\ _copy_funcs' = r.funcs
  /\ UNCHANGED <<pc, effects, attempts, stream_vars>>

NextRegistry == RegisterCopyFunc

SpecRegistry == InitRegistry /\ [][NextRegistry]_vars

\* C1: a register_copy_func call for a (src, dst) pair that already has an entry
\* raises the "already exists" ValueError and leaves the whole registry as it was.
C1_DuplicateRejected ==
  [][ ( /\ args'.op = "register_copy_func"
        /\ has_copy_func(_copy_funcs, args'.src_protocol, args'.dst_protocol) )
      => (ret'.err = "ValueError" /\ _copy_funcs' = _copy_funcs) ]_vars

\* C1 witness: the duplicate of a pair that was registered at run time (http->fs)
\* has been rejected, after another pair had been registered too.
C1_Witness ==
  /\ args.op = "register_copy_func"
  /\ args.src_protocol = HTTP
  /\ args.dst_protocol = FS
  /\ ret.err = "ValueError"
  /\ has_copy_func(_copy_funcs, HTTP, FS)
  /\ _copy_funcs[HTTP][FS] # args.copy_func
  /\ has_copy_func(_copy_funcs, FS, HTTP)

(***************************************************************************)
(* The HTTP backend                                                        *)
(***************************************************************************)
\* http.py:24
max_retries == 10

\* http.py:28 status_forcelist
status_forcelist == {502, 503, 504}

\* What one GET can meet: a response with a status code, or a connection-level
\* failure (requests.ConnectionError, requests.Timeout) with no response.
Response(code) == [kind |-> "response", status_code |-> code]
ConnectionFailures ==
  { [kind |-> "ConnectionError", status_code |-> 0], [kind |-> "Timeout", status_code |-> 0] }
RequestOutcomes == {Response(c) : c \in {200, 401, 403, 404, 500, 502, 503, 504}} \cup ConnectionFailures

\* Response.raise_for_status(): an HTTPError for a 4xx or 5xx status
raises_for_status(outcome) == outcome.kind = "response" /\ outcome.status_code >= 400

\* megfile.errors.http_should_retry: a forcelisted status or a connection-level failure
http_should_retry(outcome) ==
  outcome \in ConnectionFailures
    \/ (outcome.kind = "response" /\ outcome.status_code \in status_forcelist)

\* megfile.errors.translate_http_error
translate_http_error(outcome) ==
  IF outcome.kind = "response" /\ outcome.status_code \in {401, 403} THEN "HttpPermissionError"
  ELSE IF outcome.kind = "response" /\ outcome.status_code = 404 THEN "HttpFileNotFoundError"
       ELSE "HttpUnknownError"

\* http.py:32-35 after_callback: raises for a forcelisted status, else passes the response on
after_callback_raises(outcome) ==
  outcome.kind = "response" /\ outcome.status_code \in status_forcelist

HttpModes == {"rb", "wb"}

InitHttp ==
  /\ _copy_funcs = BuiltinCopyFuncs
  /\ pc = "idle"
  /\ args = NoCall
  /\ ret = NoRet
  /\ InitIdle

\* http.py:68-83: http_open is entered; a mode other than 'rb' raises before any request
HttpOpenCall ==
  /\ pc \in {"idle", "done"}
  /\ \E mode \in HttpModes :
       /\ args' = [op |-> "http_open", mode |-> mode]
       /\ IF mode # "rb"
          THEN pc' = "done" /\ ret' = [err |-> "ValueError"]
          ELSE pc' = "get" /\ ret' = NoRet
  /\ attempts' = 0
  /\ UNCHANGED <<_copy_funcs, effects, stream_vars>>

\* http.py:95-103: http_stat is entered
HttpStatCall ==
  /\ pc \in {"idle", "done"}
  /\ args' = [op |-> "http_stat"]
  /\ pc' = "get"
  /\ ret' = NoRet
  /\ attempts' = 0
  /\ UNCHANGED <<_copy_funcs, effects, stream_vars>>

\* http.py:85-89 and 104-108: one requests.get, raise_for_status, and any
\* exception translated and raised to the caller
HttpGet ==
  /\ pc = "get"
  /\ args.op \in {"http_open", "http_stat"}
  /\ \E outcome \in RequestOutcomes :
       /\ attempts' = attempts + 1
       /\ pc' = "done"
       /\ ret' = IF outcome \in ConnectionFailures \/ raises_for_status(outcome)
                 THEN [err |-> translate_http_error(outcome), cause |-> outcome]
                 ELSE [err |-> "none", cause |-> outcome]
  /\ UNCHANGED <<_copy_funcs, args, effects, stream_vars>>

\* http.py:42-49: a request through the session get_http_session() returns
SessionRequestCall ==
  /\ pc \in {"idle", "done"}
  /\ args' = [op |-> "session.request"]
  /\ pc' = "attempt"
  /\ ret' = NoRet
  /\ attempts' = 0
  /\ UNCHANGED <<_copy_funcs, effects, stream_vars>>

\* megfile.errors.patch_method as configured at http.py:42-48: one attempt of
\* the wrapped session.request, retried while the failure is transient and
\* fewer than max_retries attempts were made
SessionAttempt ==
  /\ pc = "attempt"
  /\ args.op = "session.request"
  /\ attempts < max_retries
  /\ \E outcome \in RequestOutcomes :
       LET failed == outcome \in ConnectionFailures \/ after_callback_raises(outcome)
       IN /\ attempts' = attempts + 1
          /\ IF ~failed
             THEN pc' = "done" /\ ret' = [err |-> "none", cause |-> outcome]
             ELSE IF http_should_retry(outcome) /\ attempts + 1 < max_retries
                  THEN pc' = "attempt" /\ ret' = [err |-> "retrying", cause |-> outcome]
                  ELSE pc' = "done" /\ ret' = [err |-> "HTTPError", cause |-> outcome]
  /\ UNCHANGED <<_copy_funcs, args, effects, stream_vars>>

NextHttp == HttpOpenCall \/ HttpStatCall \/ HttpGet \/ SessionRequestCall \/ SessionAttempt

SpecHttp == InitHttp /\ [][NextHttp]_vars

\* C2: a failure of http_open or http_stat caused by a transient condition
\* (502, 503, 504 or a connection-level failure) reaches the caller only after
\* max_retries attempts.
C2_TransientFailureSurfacesAfterRetries ==
  ( /\ pc = "done"
    /\ args.op \in {"http_open", "http_stat"}
    /\ ret.err \notin {"none", "unset", "ValueError"}
    /\ http_should_retry(ret.cause) )
  => attempts = max_retries

(***************************************************************************)
(* smart_copy and the default copy function                                *)
(***************************************************************************)
\* megfile.s3.is_s3: the path's protocol tag is s3
is_s3(path) ==
  LET r == _extract_protocol(path)
  IN r.err = "none" /\ r.protocol = S3

\* smart.py:188-191: the registry entry of the pair, or the default on KeyError
lookup_copy_func(funcs, src_protocol, dst_protocol) ==
  IF has_copy_func(funcs, src_protocol, dst_protocol)
  THEN funcs[src_protocol][dst_protocol]
  ELSE "_default_copy_func"

NoPlan(e, skipped) == [err |-> e, skip |-> skipped, copy_func |-> "none", kwargs |-> {}]

\* The variant that copies a symlink to object storage instead of skipping it.
smart_copy_plan_no_skip(funcs, islink, src_path, dst_path, followlinks) ==
  LET src_protocol == _extract_protocol(src_path)
      dst_protocol == _extract_protocol(dst_path)
  IN IF src_protocol.err # "none" THEN NoPlan(src_protocol.err, FALSE)
     ELSE IF dst_protocol.err # "none" THEN NoPlan(dst_protocol.err, FALSE)
     ELSE LET copy_func == lookup_copy_func(funcs, src_protocol.protocol, dst_protocol.protocol)
          IN [ err |-> "none", skip |-> FALSE, copy_func |-> copy_func,
               kwargs |-> IF copy_func = "fs_copy"
                          THEN {"callback", "followlinks"} ELSE {"callback"} ]

\* smart.py:181-195: what smart_copy decides before it calls a copy function:
\* skip (a symlink bound for s3, links not followed), an error of the protocol
\* classification, or the copy function with the keyword arguments it is given
smart_copy_plan(funcs, islink, src_path, dst_path, followlinks) ==
  IF islink /\ is_s3(dst_path) /\ ~followlinks THEN NoPlan("none", TRUE)
  ELSE LET src_protocol == _extract_protocol(src_path)
           dst_protocol == _extract_protocol(dst_path)
       IN IF src_protocol.err # "none" THEN NoPlan(src_protocol.err, FALSE)
          ELSE IF dst_protocol.err # "none" THEN NoPlan(dst_protocol.err, FALSE)
          ELSE LET copy_func == lookup_copy_func(funcs, src_protocol.protocol, dst_protocol.protocol)
               IN [ err |-> "none", skip |-> FALSE, copy_func |-> copy_func,
                    kwargs |-> IF copy_func = "fs_copy"
                               THEN {"callback", "followlinks"} ELSE {"callback"} ]

\* The call a copy function receives (smart.py:192-195)
CopyEffect(copy_func, kwargs, src_path, dst_path, callback, followlinks) ==
  [ op |-> copy_func, src_path |-> src_path, dst_path |-> dst_path,
    callback |-> callback, kwargs |-> kwargs,
    followlinks |-> ("followlinks" \in kwargs) /\ followlinks ]

LocalFile == <<"/", "t", "/", "a">>
S3Object == <<"s", "3", ":", "/", "/", "b", "/", "k">>
HttpUrl == <<"h", "t", "t", "p", ":", "/", "/", "x", "/", "a">>
HttpsUrl == <<"h", "t", "t", "p", "s", ":", "/", "/", "x", "/", "a">>

CopyPaths == {Str(LocalFile), Str(S3Object), Str(HttpUrl), Str(HttpsUrl), PurePathOf(LocalFile)}

\* Only a local path can denote a symbolic link.
CanBeLink(path) == _extract_protocol(path) = Return(FS)

\* smart.py:95
length == 16 * 1024

\* Sizes of the source, around the chunk length
FileSizes == {0, 1, 16383, 16384, 16385, 32768, 40000}
\* Sizes of the reads that return fewer bytes than were asked for
ShortReads == {1, 10000}
MaxShortReads == 2

\* Progress reports of a backend copy function: the byte counts it passes to callback
BackendProgress == { <<>>, <<5>>, <<16384, 5>> }

Min(a, b) == IF a < b THEN a ELSE b

ShortChunks(chunks, size) ==
  {i \in 1..Len(chunks) : chunks[i].len < length /\ chunks[i].off + chunks[i].len < size}

\* fsrc.read(length): b'' at the end of the source, else at most length bytes
ReadSizes(size, pos, chunks) ==
  IF pos >= size THEN {0}
  ELSE {Min(length, size - pos)}
         \cup {k \in ShortReads : /\ k < Min(length, size - pos)
                                  /\ Cardinality(ShortChunks(chunks, size)) < MaxShortReads}

InitCopy ==
  /\ _copy_funcs = BuiltinCopyFuncs
  /\ pc = "idle"
  /\ args = NoCall
  /\ ret = NoRet
  /\ InitIdle

\* Pairs a user registers a copy function for, between copies
CopyRegistrations == {<<HTTP, FS>>, <<S3, HTTP>>}

\* register_copy_func between copies
RegisterForCopy ==
  /\ pc = "idle"
  /\ \E pair \in CopyRegistrations :
       LET r == register_copy_func(_copy_funcs, pair[1], pair[2], "user_copy")
       IN /\ r.err = "none"
          /\ _copy_funcs' = r.funcs
  /\ UNCHANGED <<pc, args, ret, effects, attempts, stream_vars>>

\* smart.py:152-195: smart_copy up to the call of the copy function
SmartCopyCall ==
  /\ pc = "idle"
  /\ \E src_path \in CopyPaths, dst_path \in CopyPaths, callback \in {"None", "callback"},
        followlinks \in BOOLEAN, islink \in BOOLEAN :
       LET plan == smart_copy_plan(_copy_funcs, islink, src_path, dst_path, followlinks)
       IN /\ islink => CanBeLink(src_path)
          /\ args' = [ op |-> "smart_copy", src_path |-> src_path, dst_path |-> dst_path,
                       callback |-> callback, followlinks |-> followlinks, islink |-> islink,
                       copy_func |-> plan.copy_func, kwargs |-> plan.kwargs, size |-> 0 ]
          /\ IF plan.err # "none" THEN pc' = "done" /\ ret' = [err |-> plan.err]
             ELSE IF plan.skip THEN pc' = "done" /\ ret' = [err |-> "none"]
             ELSE pc' = "copy_func" /\ ret' = NoRet
  /\ effects' = <<>>
  /\ fsrc_pos' = 0
  /\ buf' = NoBuf
  /\ fdst' = <<>>
  /\ callbacks' = <<>>
  /\ UNCHANGED <<_copy_funcs, attempts>>

\* smart.py:192-195: a registered copy function runs (fs_copy, s3_copy,
\* s3_upload, s3_download or a user's): it reports progress and returns or raises
BackendCopy ==
  /\ pc = "copy_func"
  /\ args.copy_func # "_default_copy_func"
  /\ \E outcome \in {"none", "BackendError"}, progress \in BackendProgress :
       /\ callbacks' = IF args.callback = "None" THEN <<>> ELSE progress
       /\ ret' = [err |-> outcome]
  /\ effects' = Append(effects, CopyEffect(args.copy_func, args.kwargs, args.src_path,
                                           args.dst_path, args.callback, args.followlinks))
  /\ pc' = "done"
  /\ UNCHANGED <<_copy_funcs, args, attempts, fsrc_pos, buf, fdst>>

OpenEffect(path, mode) == [op |-> "smart_open", path |-> path, mode |-> mode]

\* smart.py:92-93: both streams are opened; the source may not exist, and the
\* HTTP backend opens nothing for writing (http.py:82-83)
DefaultCopyOpen ==
  /\ pc = "copy_func"
  /\ args.copy_func = "_default_copy_func"
  /\ \E size \in FileSizes, src_found \in BOOLEAN :
       IF ~src_found
       THEN /\ pc' = "done"
            /\ ret' = [err |-> "FileNotFoundError"]
            /\ effects' = Append(effects, OpenEffect(args.src_path, "rb"))
            /\ UNCHANGED args
       ELSE IF _extract_protocol(args.dst_path).protocol = HTTP
            THEN /\ pc' = "done"
                 /\ ret' = [err |-> "ValueError"]
                 /\ effects' = effects \o <<OpenEffect(args.src_path, "rb"),
                                            OpenEffect(args.dst_path, "wb")>>
                 /\ UNCHANGED args
            ELSE /\ pc' = "read"
                 /\ ret' = NoRet
                 /\ effects' = effects \o <<OpenEffect(args.src_path, "rb"),
                                            OpenEffect(args.dst_path, "wb")>>
                 /\ args' = [args EXCEPT !.size = size]
  /\ UNCHANGED <<_copy_funcs, attempts, stream_vars>>

\* smart.py:97-99: buf = fsrc.read(length); an empty buf ends the copy
DefaultCopyRead ==
  /\ pc = "read"
  /\ \E n \in ReadSizes(args.size, fsrc_pos, fdst) :
       /\ buf' = [off |-> fsrc_pos, len |-> n]
       /\ fsrc_pos' = fsrc_pos + n
       /\ IF n = 0 THEN pc' = "done" /\ ret' = [err |-> "none"]
                   ELSE pc' = "write" /\ ret' = ret
  /\ UNCHANGED <<_copy_funcs, args, effects, attempts, fdst, callbacks>>

\* smart.py:100-102: fdst.write(buf); without a callback the loop continues
DefaultCopyWrite ==
  /\ pc = "write"
  /\ fdst' = Append(fdst, buf)
  /\ pc' = IF args.callback = "None" THEN "read" ELSE "callback"
  /\ UNCHANGED <<_copy_funcs, args, ret, effects, attempts, fsrc_pos, buf, callbacks>>

\* The variant that reports the length asked for, not the length read.
DefaultCopyCallback_requested_length ==
  /\ pc = "callback"
  /\ callbacks' = Append(callbacks, length)
  /\ pc' = "read"
  /\ UNCHANGED <<_copy_funcs, args, ret, effects, attempts, fsrc_pos, buf, fdst>>

\* smart.py:103: callback(len(buf))
DefaultCopyCallback ==
  /\ pc = "callback"
  /\ callbacks' = Append(callbacks, buf.len)
  /\ pc' = "read"
  /\ UNCHANGED <<_copy_funcs, args, ret, effects, attempts, fsrc_pos, buf, fdst>>

NextCopy ==
  \/ RegisterForCopy
  \/ SmartCopyCall
  \/ BackendCopy
  \/ DefaultCopyOpen
  \/ DefaultCopyRead
  \/ DefaultCopyWrite
  \/ DefaultCopyCallback

SpecCopy == InitCopy /\ [][NextCopy]_vars

S3Prefix == <<"s", "3", ":", "/", "/">>

\* C3: smart_copy of a symbolic link to an s3:// destination with
\* followlinks=False returns without error, having called no copy function,
\* opened and written nothing, and invoked no callback.
C3_SymlinkToS3Skipped ==
  ( /\ args.op = "smart_copy"
    /\ pc # "idle"
    /\ args.islink
    /\ args.dst_path.type = "str"
    /\ startswith(args.dst_path.text, S3Prefix)
    /\ ~args.followlinks )
  => ( /\ pc = "done"
       /\ ret.err = "none"
       /\ args.copy_func = "none"
       /\ effects = <<>>
       /\ fdst = <<>>
       /\ callbacks = <<>> )

\* C3 witness: such a copy, given a callback, has returned.
C3_Witness ==
  /\ args.op = "smart_copy"
  /\ pc = "done"
  /\ args.islink
  /\ args.dst_path = Str(S3Object)
  /\ ~args.followlinks
  /\ args.callback = "callback"
  /\ ret.err = "none"

RECURSIVE SumLens(_)
SumLens(chunks) == IF chunks = <<>> THEN 0 ELSE Head(chunks).len + SumLens(Tail(chunks))

RECURSIVE Sum(_)
Sum(ns) == IF ns = <<>> THEN 0 ELSE Head(ns) + Sum(Tail(ns))

\* C6: smart_copy uses the default copy function whenever the registry has no
\* entry for the pair of protocols; the default copy function writes the source's
\* bytes in source order in chunks of 1..16384 bytes, invokes the callback once
\* after each written chunk with that chunk's length, and on return every byte
\* has been written and the callback arguments add up to the bytes written.
C6_DefaultCopyChunks ==
  (args.op = "smart_copy" /\ pc # "idle") =>
    LET src_protocol == _extract_protocol(args.src_path).protocol
        dst_protocol == _extract_protocol(args.dst_path).protocol
        skipped == args.islink /\ is_s3(args.dst_path) /\ ~args.followlinks
    IN /\ (~skipped /\ ~has_copy_func(_copy_funcs, src_protocol, dst_protocol))
            => args.copy_func = "_default_copy_func"
       /\ args.copy_func = "_default_copy_func" =>
            /\ ~has_copy_func(_copy_funcs, src_protocol, dst_protocol)
            /\ \A i \in 1..Len(fdst) :
                 /\ fdst[i].len >= 1
                 /\ fdst[i].len <= 16384
                 /\ fdst[i].off = SumLens(SubSeq(fdst, 1, i - 1))
            /\ SumLens(fdst) <= args.size
            /\ args.callback = "None" => callbacks = <<>>
            /\ args.callback # "None" =>
                 /\ Len(callbacks) = IF pc = "callback" THEN Len(fdst) - 1 ELSE Len(fdst)
                 /\ \A i \in 1..Len(callbacks) : callbacks[i] = fdst[i].len
            /\ (pc = "done" /\ ret.err = "none") =>
                 /\ SumLens(fdst) = args.size
                 /\ args.callback # "None" => Sum(callbacks) = SumLens(fdst)

\* C6 witness: a default copy of 40000 bytes with a callback has returned after
\* at least three chunks, one of them a short read.
C6_Witness ==
  /\ args.op = "smart_copy"
  /\ pc = "done"
  /\ ret.err = "none"
  /\ args.copy_func = "_default_copy_func"
  /\ args.callback = "callback"
  /\ args.size = 40000
  /\ Len(fdst) >= 3
  /\ \E i \in 1..Len(fdst) : fdst[i].len < length /\ i < Len(fdst)
  /\ Len(callbacks) = Len(fdst)

(***************************************************************************)
(* Path helpers of the composite operations                                *)
(***************************************************************************)
\* smart.py:123-124 with megfile.lib.compat.fspath: the string form of a str
\* or of a path object
get_traditional_path(path) == Str(path.text)

RECURSIVE split(_, _)
\* str.split(c)
split(s, c) ==
  LET i == find(s, c)
  IN IF i = 0 THEN <<s>> ELSE <<SubSeq(s, 1, i - 1)>> \o split(SubSeq(s, i + 1, Len(s)), c)

RECURSIVE join(_, _)
\* c.join(parts)
join(c, parts) ==
  IF parts = <<>> THEN <<>>
  ELSE IF Len(parts) = 1 THEN parts[1]
       ELSE parts[1] \o <<c>> \o join(c, Tail(parts))

RECURSIVE norm_comps(_, _, _)
\* the component loop of posixpath.normpath
norm_comps(comps, new_comps, initial_slashes) ==
  IF comps = <<>> THEN new_comps
  ELSE LET comp == Head(comps)
       IN IF comp \in {<<>>, <<".">>}
          THEN norm_comps(Tail(comps), new_comps, initial_slashes)
          ELSE IF \/ comp # <<".", ".">>
                  \/ (initial_slashes = 0 /\ new_comps = <<>>)
                  \/ (new_comps # <<>> /\ new_comps[Len(new_comps)] = <<".", ".">>)
               THEN norm_comps(Tail(comps), Append(new_comps, comp), initial_slashes)
               ELSE IF new_comps # <<>>
                    THEN norm_comps(Tail(comps), SubSeq(new_comps, 1, Len(new_comps) - 1),
                                    initial_slashes)
                    ELSE norm_comps(Tail(comps), new_comps, initial_slashes)

\* os.path.normpath (POSIX), called at smart.py:463
normpath(path) ==
  IF path = <<>> THEN <<".">>
  ELSE LET initial_slashes ==
             IF ~startswith(path, <<"/">>) THEN 0
             ELSE IF startswith(path, <<"/", "/">>) /\ ~startswith(path, <<"/", "/", "/">>)
                  THEN 2 ELSE 1
           body == join("/", norm_comps(split(path, "/"), <<>>, initial_slashes))
           out == [i \in 1..initial_slashes |-> "/"] \o body
       IN IF out = <<>> THEN <<".">> ELSE out

\* megfile.fs.fs_path_join: local path-join semantics (os.path.join)
fs_path_join(path, other) ==
  IF startswith(other, <<"/">>) THEN other
  ELSE IF path = <<>> \/ path[Len(path)] = "/" THEN path \o other
       ELSE path \o <<"/">> \o other

\* megfile.s3.s3_path_join: key-join semantics, no normalisation
s3_path_join(path, other) ==
  LET first == IF path # <<>> /\ path[Len(path)] = "/" THEN SubSeq(path, 1, Len(path) - 1) ELSE path
      last == IF startswith(other, <<"/">>) THEN Tail(other) ELSE other
  IN first \o <<"/">> \o last

JoinRaise(e) == [err |-> e, path |-> Str(<<>>)]
JoinReturn(t) == [err |-> "none", path |-> Str(t)]

\* smart.py:460-466
smart_path_join(path, other) ==
  LET protocol == _extract_protocol(path)
  IN IF protocol.err # "none" THEN JoinRaise(protocol.err)
     ELSE IF protocol.protocol = FS THEN JoinReturn(normpath(fs_path_join(path.text, other)))
     ELSE IF protocol.protocol = S3 THEN JoinReturn(s3_path_join(path.text, other))
     ELSE JoinRaise("UnsupportedError")

\* The variant that joins even an empty relative path onto dst.
sync_dst_path_always_join(src_path, dst_path, src_file_path) ==
  smart_path_join(dst_path, lstrip(slice_from(src_file_path.text, Len(src_path.text)), "/"))

\* The variant that joins the whole source file path onto dst.
sync_dst_path_no_slice(src_path, dst_path, src_file_path) ==
  LET content_path == src_file_path.text
  IN IF src_file_path.text # src_path.text
     THEN smart_path_join(dst_path, lstrip(content_path, "/"))
     ELSE [err |-> "none", path |-> dst_path]

\* smart.py:244-250: where smart_sync copies src_file_path to
sync_dst_path(src_path, dst_path, src_file_path) ==
  LET content_path == slice_from(src_file_path.text, Len(src_path.text))
  IN IF Len(content_path) # 0
     THEN smart_path_join(dst_path, lstrip(content_path, "/"))
     ELSE [err |-> "none", path |-> dst_path]

(***************************************************************************)
(* smart_rename, smart_sync and smart_move                                 *)
(***************************************************************************)
SrcDir == <<"/", "t">>
SrcDirSlash == <<"/", "t", "/">>
SrcPrefix == <<"s", "3", ":", "/", "/", "b", "/", "q">>
DstDir == <<"/", "d">>
DstDirSlash == <<"/", "d", "/">>
DstPrefix == <<"s", "3", ":", "/", "/", "b", "/", "p">>
DstUrl == <<"h", "t", "t", "p", ":", "/", "/", "x", "/", "d">>

MoveSrcs == {Str(SrcDir), Str(SrcDirSlash), Str(SrcPrefix), PurePathOf(SrcDir)}
MoveDsts == {Str(DstDir), Str(DstDirSlash), Str(DstPrefix), Str(DstUrl), PurePathOf(DstDir)}

\* What a path denotes: smart_isdir and smart_islink answer from it
PathKinds(path) ==
  IF CanBeLink(path) THEN {"file", "dir", "link_to_file", "link_to_dir"} ELSE {"file", "dir"}

\* smart_isdir(path, followlinks): a directory, or a followed link to one
smart_isdir(kind, followlinks) == kind = "dir" \/ (kind = "link_to_dir" /\ followlinks)

\* smart_islink(path)
smart_islink(kind) == kind \in {"link_to_file", "link_to_dir"}

\* Paths of the files below a scanned directory, relative to it
RelPaths == { <<"a">>, <<"b">>, <<"d", "/", "a">> }
MaxScan == 2

\* smart_scan(src_path, followlinks) of a directory: files below src_path, each
\* possibly a symbolic link when src_path is local
ScanEntries(src_path) ==
  { [ path |-> Str(src_path.text
                     \o (IF src_path.text[Len(src_path.text)] = "/" THEN <<>> ELSE <<"/">>)
                     \o rel),
      rel |-> rel, islink |-> l ] :
      rel \in RelPaths, l \in (IF CanBeLink(src_path) THEN BOOLEAN ELSE {FALSE}) }

\* smart_scan(src_path, followlinks) of a file: src_path itself
ScanOfFile(src_path) ==
  { << [path |-> src_path, rel |-> <<>>, islink |-> l] >> :
      l \in (IF CanBeLink(src_path) THEN BOOLEAN ELSE {FALSE}) }

ScanResults(src_path) ==
  ScanOfFile(src_path)
    \cup { q \in UNION {[1..n -> ScanEntries(src_path)] : n \in 0..MaxScan} :
             \A i, j \in DOMAIN q : i # j => q[i].rel # q[j].rel }

\* Registries a composite operation can start from
MoveRegistries ==
  { BuiltinCopyFuncs, register_copy_func(BuiltinCopyFuncs, S3, HTTP, "user_copy").funcs }

\* Progress reports of one file's copy function
SyncProgress == { <<>>, <<7>>, <<16384, 7>> }

PlanRaise(e) == [err |-> e, branch |-> "none"]
PlanBranch(b) == [err |-> "none", branch |-> b]

\* smart.py:138-148 and 268-278: the branch taken for the pair of protocols
protocol_branch(src_path, dst_path, cross) ==
  LET src_protocol == _extract_protocol(src_path)
      dst_protocol == _extract_protocol(dst_path)
  IN IF src_protocol.err # "none" THEN PlanRaise(src_protocol.err)
     ELSE IF dst_protocol.err # "none" THEN PlanRaise(dst_protocol.err)
     ELSE IF src_protocol.protocol = dst_protocol.protocol
          THEN IF src_protocol.protocol = FS THEN PlanBranch("fs_rename")
               ELSE IF src_protocol.protocol = S3 THEN PlanBranch("s3_rename")
               ELSE PlanRaise("UnsupportedError")
          ELSE PlanBranch(cross)

\* The variant that tests for a directory only on the cross-protocol path.
smart_rename_plan_late_isdir(isdir, src_path, dst_path) ==
  LET b == protocol_branch(src_path, dst_path, "copy_unlink")
  IN IF b.err = "none" /\ b.branch = "copy_unlink" /\ isdir
     THEN PlanRaise("IsADirectoryError") ELSE b

\* smart.py:136-149
smart_rename_plan(isdir, src_path, dst_path) ==
  IF isdir THEN PlanRaise("IsADirectoryError")
  ELSE protocol_branch(src_path, dst_path, "copy_unlink")

\* smart.py:268-279
smart_move_plan(src_path, dst_path) == protocol_branch(src_path, dst_path, "sync_remove")

\* The variant that removes the source even when the sync raised.
after_copy_error_cleanup(op) == IF op = "smart_move" THEN "remove" ELSE "done"

\* smart.py:252-256 and 278-279: an exception of smart_copy leaves smart_sync,
\* and smart_move, at once
after_copy_error(op) == "done"

\* smart.py:278: the cross-protocol smart_move starts with smart_sync
after_move_call(branch) == IF branch = "sync_remove" THEN "scan" ELSE "done"

SmartCopyCallEffect(src_path, dst_path, callback, followlinks) ==
  [ op |-> "smart_copy", src_path |-> src_path, dst_path |-> dst_path,
    callback |-> callback, followlinks |-> followlinks ]

RenameEffect(branch, src_path, dst_path) ==
  [op |-> branch, src_path |-> src_path, dst_path |-> dst_path]

RemoveEffect(op, path, followlinks) == [op |-> op, path |-> path, followlinks |-> followlinks]

InitMove ==
  /\ _copy_funcs \in MoveRegistries
  /\ pc = "idle"
  /\ args = NoCall
  /\ ret = NoRet
  /\ InitIdle

\* smart.py:127-147: smart_rename up to the cross-protocol copy
SmartRenameCall ==
  /\ pc = "idle"
  /\ \E src_path \in MoveSrcs, dst_path \in MoveDsts, followlinks \in BOOLEAN :
       \E kind \in PathKinds(src_path), outcome \in {"none", "BackendError"} :
         LET plan == smart_rename_plan(smart_isdir(kind, followlinks), src_path, dst_path)
         IN /\ args' = [ op |-> "smart_rename", src_path |-> src_path, dst_path |-> dst_path,
                         followlinks |-> followlinks, kind |-> kind ]
            /\ IF plan.err # "none"
               THEN pc' = "done" /\ ret' = [err |-> plan.err] /\ effects' = <<>>
               ELSE IF plan.branch \in {"fs_rename", "s3_rename"}
                    THEN /\ pc' = "done"
                         /\ ret' = [err |-> outcome]
                         /\ effects' = <<RenameEffect(plan.branch, src_path, dst_path)>>
                    ELSE pc' = "rename_copy" /\ ret' = NoRet /\ effects' = <<>>
  /\ UNCHANGED <<_copy_funcs, attempts, stream_vars>>

\* smart.py:148: smart_copy(src_path, dst_path), with no callback and links not followed
RenameCopy ==
  /\ pc = "rename_copy"
  /\ \E outcome \in {"none", "BackendError"} :
       LET plan == smart_copy_plan(_copy_funcs, smart_islink(args.kind),
                                   args.src_path, args.dst_path, FALSE)
           call == SmartCopyCallEffect(args.src_path, args.dst_path, "None", FALSE)
       IN IF plan.err # "none"
          THEN pc' = "done" /\ ret' = [err |-> plan.err] /\ effects' = Append(effects, call)
          ELSE IF plan.skip
               THEN pc' = "unlink" /\ ret' = ret /\ effects' = Append(effects, call)
               ELSE /\ effects' = effects \o <<call, CopyEffect(plan.copy_func, plan.kwargs,
                                     args.src_path, args.dst_path, "None", FALSE)>>
                    /\ IF outcome = "none"
                       THEN pc' = "unlink" /\ ret' = ret
                       ELSE pc' = "done" /\ ret' = [err |-> outcome]
  /\ UNCHANGED <<_copy_funcs, args, attempts, stream_vars>>

\* smart.py:149: smart_unlink(src_path)
RenameUnlink ==
  /\ pc = "unlink"
  /\ \E outcome \in {"none", "BackendError"} :
       ret' = [err |-> outcome]
  /\ effects' = Append(effects, RemoveEffect("smart_unlink", args.src_path, FALSE))
  /\ pc' = "done"
  /\ UNCHANGED <<_copy_funcs, args, attempts, stream_vars>>

\* smart.py:198-243: smart_sync is entered and the scan of src_path starts
SmartSyncCall ==
  /\ pc = "idle"
  /\ \E src_path \in MoveSrcs, dst_path \in MoveDsts, followlinks \in BOOLEAN,
        callback \in {"None", "callback"} :
       \E scan \in ScanResults(get_traditional_path(src_path)) :
         args' = [ op |-> "smart_sync", src_path |-> src_path, dst_path |-> dst_path,
                   followlinks |-> followlinks, callback |-> callback,
                   src_str |-> get_traditional_path(src_path),
                   dst_str |-> get_traditional_path(dst_path),
                   scan |-> scan, i |-> 1 ]
  /\ pc' = "scan"
  /\ ret' = NoRet
  /\ effects' = <<>>
  /\ UNCHANGED <<_copy_funcs, attempts, stream_vars>>

\* smart.py:259-278: smart_move; the same-protocol branch renames in the backend
SmartMoveCall ==
  /\ pc = "idle"
  /\ \E src_path \in MoveSrcs, dst_path \in MoveDsts, followlinks \in BOOLEAN :
       \E scan \in ScanResults(get_traditional_path(src_path)),
          outcome \in {"none", "BackendError"} :
         LET plan == smart_move_plan(src_path, dst_path)
         IN /\ args' = [ op |-> "smart_move", src_path |-> src_path, dst_path |-> dst_path,
                         followlinks |-> followlinks, callback |-> "None",
                         src_str |-> get_traditional_path(src_path),
                         dst_str |-> get_traditional_path(dst_path),
                         scan |-> IF plan.err = "none" /\ plan.branch = "sync_remove"
                                  THEN scan ELSE <<>>,
                         i |-> 1 ]
            /\ IF plan.err # "none"
               THEN pc' = "done" /\ ret' = [err |-> plan.err] /\ effects' = <<>>
               ELSE IF plan.branch \in {"fs_rename", "s3_rename"}
                    THEN /\ pc' = "done"
                         /\ ret' = [err |-> outcome]
                         /\ effects' = <<RenameEffect(plan.branch, src_path, dst_path)>>
                    ELSE /\ pc' = after_move_call(plan.branch)
                         /\ ret' = NoRet
                         /\ effects' = <<>>
  /\ UNCHANGED <<_copy_funcs, attempts, stream_vars>>

\* smart.py:243-256: one turn of smart_sync's loop, the smart_copy of the next
\* scanned file, whose callback is partial(callback, src_file_path)
SyncCopyFile ==
  /\ pc = "scan"
  /\ args.i <= Len(args.scan)
  /\ \E outcome \in {"none", "BackendError"}, progress \in SyncProgress :
       LET entry == args.scan[args.i]
           src_file_path == entry.path
           dst_abs_file_path == sync_dst_path(args.src_str, args.dst_str, src_file_path)
           copy_callback == IF args.callback # "None" THEN "partial" ELSE "None"
           plan == smart_copy_plan(_copy_funcs, entry.islink, src_file_path,
                                   dst_abs_file_path.path, args.followlinks)
           call == SmartCopyCallEffect(src_file_path, dst_abs_file_path.path,
                                       copy_callback, args.followlinks)
       IN IF dst_abs_file_path.err # "none"
          THEN /\ pc' = after_copy_error(args.op)
               /\ ret' = [err |-> dst_abs_file_path.err]
               /\ UNCHANGED <<args, effects, callbacks>>
          ELSE IF plan.err # "none"
               THEN /\ pc' = after_copy_error(args.op)
                    /\ ret' = [err |-> plan.err]
                    /\ effects' = Append(effects, call)
                    /\ UNCHANGED <<args, callbacks>>
               ELSE IF plan.skip
                    THEN /\ pc' = "scan"
                         /\ args' = [args EXCEPT !.i = @ + 1]
                         /\ effects' = Append(effects, call)
                         /\ UNCHANGED <<ret, callbacks>>
                    ELSE /\ effects' = effects \o <<call, CopyEffect(plan.copy_func, plan.kwargs,
                                          src_file_path, dst_abs_file_path.path,
                                          copy_callback, args.followlinks)>>
                         /\ callbacks' =
                              IF copy_callback = "None" THEN callbacks
                              ELSE callbacks \o [k \in 1..Len(progress) |->
                                                   [path |-> src_file_path, bytes |-> progress[k]]]
                         /\ IF outcome = "none"
                            THEN /\ pc' = "scan"
                                 /\ args' = [args EXCEPT !.i = @ + 1]
                                 /\ ret' = ret
                            ELSE /\ pc' = after_copy_error(args.op)
                                 /\ ret' = [err |-> outcome]
                                 /\ args' = args
  /\ UNCHANGED <<_copy_funcs, attempts, fsrc_pos, buf, fdst>>

\* smart.py:243 and 278-279: the scan is exhausted; smart_sync returns, and
\* smart_move goes on to remove the source
SyncReturn ==
  /\ pc = "scan"
  /\ args.i > Len(args.scan)
  /\ IF args.op = "smart_move"
     THEN pc' = "remove" /\ ret' = ret
     ELSE pc' = "done" /\ ret' = [err |-> "none"]
  /\ UNCHANGED <<_copy_funcs, args, effects, attempts, stream_vars>>

\* smart.py:279: smart_remove(src_path, followlinks=followlinks)
MoveRemove ==
  /\ pc = "remove"
  /\ \E outcome \in {"none", "BackendError"} :
       ret' = [err |-> IF ret.err \in {"unset", "none"} THEN outcome ELSE ret.err]
  /\ effects' = Append(effects, RemoveEffect("smart_remove", args.src_path, args.followlinks))
  /\ pc' = "done"
  /\ UNCHANGED <<_copy_funcs, args, attempts, stream_vars>>

NextMove ==
  \/ SmartRenameCall
  \/ RenameCopy
  \/ RenameUnlink
  \/ SmartSyncCall
  \/ SmartMoveCall
  \/ SyncCopyFile
  \/ SyncReturn
  \/ MoveRemove

SpecMove == InitMove /\ [][NextMove]_vars

\* C4: smart_rename of a directory raises IsADirectoryError and issues no
\* backend rename, no copy and no removal, whatever the two protocols are.
C4_RenameDirectoryRejected ==
  (args.op = "smart_rename" /\ pc # "idle" /\ args.kind = "dir")
    => (pc = "done" /\ ret.err = "IsADirectoryError" /\ effects = <<>>)

\* C4 witness: the rename of a local directory to a local path was rejected.
C4_Witness ==
  /\ args.op = "smart_rename"
  /\ pc = "done"
  /\ args.kind = "dir"
  /\ args.src_path = Str(SrcDir)
  /\ args.dst_path = Str(DstDir)
  /\ ret.err = "IsADirectoryError"

IsFileScan == Len(args.scan) = 1 /\ args.scan[1].path.text = args.src_path.text

\* C5: smart_sync of a single file (the scan yields src itself) does what
\* smart_copy(src, dst, followlinks) does: one smart_copy, to dst itself, and the
\* copy function and followlinks keyword that smart_copy gives for (src, dst).
C5_SyncOfFileIsCopy ==
  (args.op = "smart_sync" /\ IsFileScan) =>
    LET direct == smart_copy_plan(_copy_funcs, args.scan[1].islink,
                                  args.src_path, args.dst_path, args.followlinks)
    IN /\ (pc = "scan" /\ args.i = 1) => effects = <<>>
       /\ (pc = "done" \/ args.i > 1) =>
            /\ direct.err = "none"
            /\ Len(effects) = IF direct.skip THEN 1 ELSE 2
            /\ effects[1].op = "smart_copy"
            /\ effects[1].src_path.text = args.src_path.text
            /\ effects[1].dst_path.text = args.dst_path.text
            /\ effects[1].followlinks = args.followlinks
            /\ ~direct.skip =>
                 /\ effects[2].op = direct.copy_func
                 /\ effects[2].kwargs = direct.kwargs
                 /\ effects[2].src_path.text = args.src_path.text
                 /\ effects[2].dst_path.text = args.dst_path.text
                 /\ effects[2].followlinks = (("followlinks" \in direct.kwargs) /\ args.followlinks)
       /\ (pc = "done" /\ Len(effects) = 1) => ret.err = "none"

\* C5 witness: the sync of a local file given as a path object to "/d/", links
\* followed, has returned after one fs_copy.
C5_Witness ==
  /\ args.op = "smart_sync"
  /\ IsFileScan
  /\ pc = "done"
  /\ ret.err = "none"
  /\ args.src_path = PurePathOf(SrcDir)
  /\ args.dst_path = Str(DstDirSlash)
  /\ args.followlinks
  /\ Len(effects) = 2
  /\ effects[2].op = "fs_copy"

IsCopyCall(e) == e.op = "smart_copy"
IsRemoval(e) == e.op \in {"smart_remove", "smart_unlink"}

\* C9: in a cross-protocol smart_move the source is removed only as the last
\* step, after smart_copy has been called for every scanned file and none has
\* raised; when a copy raises, smart_move ends with that error, nothing is
\* removed, and the copies made so far stay as they are.
C9_MoveRemovesAfterSync ==
  (args.op = "smart_move" /\ pc # "idle") =>
    LET calls == SelectSeq(effects, IsCopyCall)
    IN /\ \A k \in 1..Len(effects) :
            IsRemoval(effects[k]) =>
              /\ k = Len(effects)
              /\ effects[k].op = "smart_remove"
              /\ Len(calls) = Len(args.scan)
              /\ args.i = Len(args.scan) + 1
       /\ pc = "remove" => (args.i = Len(args.scan) + 1 /\ Len(calls) = Len(args.scan))
       /\ (pc = "done" /\ args.i <= Len(args.scan)) =>
            /\ ret.err \notin {"none", "unset"}
            /\ \A k \in 1..Len(effects) : ~IsRemoval(effects[k])
            /\ Len(calls) >= args.i - 1
            /\ \A k \in 1..(args.i - 1) : calls[k].src_path = args.scan[k].path

\* C9 witness: a move from s3 to the local disk whose second copy raised, the
\* first file's copy being in place and nothing removed.
C9_Witness ==
  /\ args.op = "smart_move"
  /\ pc = "done"
  /\ args.src_path = Str(SrcPrefix)
  /\ args.dst_path = Str(DstDir)
  /\ Len(args.scan) = 2
  /\ args.i = 2
  /\ ret.err = "BackendError"
  /\ Len(effects) = 4
  /\ effects[2].op = "s3_download"
  /\ effects[4].op = "s3_download"

RECURSIVE rstrip(_, _)
\* str.rstrip(c)
rstrip(s, c) ==
  IF s # <<>> /\ s[Len(s)] = c THEN rstrip(SubSeq(s, 1, Len(s) - 1), c) ELSE s

\* dst joined with a relative path, for the destinations used here
JoinedOnto(dst_text, rel) == IF rel = <<>> THEN dst_text ELSE rstrip(dst_text, "/") \o <<"/">> \o rel

\* The index in the scan of the file a path belongs to (0 if none)
ScanIndex(path) ==
  IF \E k \in 1..Len(args.scan) : args.scan[k].path = path
  THEN CHOOSE k \in 1..Len(args.scan) : args.scan[k].path = path
  ELSE 0

\* C10: smart_sync calls smart_copy for the scanned files in scan order, once
\* each, the k-th call copying the k-th file to dst joined with its path
\* relative to src, with smart_sync's followlinks; after a normal return every
\* scanned file has had its call; the callback is invoked only with the path of
\* a file whose copy has been called, in scan order.
C10_SyncCopiesInScanOrder ==
  (args.op = "smart_sync" /\ pc # "idle") =>
    LET calls == SelectSeq(effects, IsCopyCall)
    IN /\ Len(calls) <= Len(args.scan)
       /\ Len(calls) \in {args.i - 1, args.i}
       /\ Len(calls) = args.i => (pc = "done" /\ ret.err # "none")
       /\ \A k \in 1..Len(calls) :
            /\ calls[k].src_path = args.scan[k].path
            /\ calls[k].dst_path.text = JoinedOnto(args.dst_path.text, args.scan[k].rel)
            /\ calls[k].followlinks = args.followlinks
            /\ (calls[k].callback = "None") <=> (args.callback = "None")
       /\ \A k \in 1..Len(effects) :
            ~IsCopyCall(effects[k]) =>
              /\ k > 1
              /\ IsCopyCall(effects[k - 1])
              /\ effects[k].src_path = effects[k - 1].src_path
              /\ effects[k].dst_path = effects[k - 1].dst_path
       /\ (pc = "done" /\ ret.err = "none") => Len(calls) = Len(args.scan)
       /\ args.callback = "None" => callbacks = <<>>
       /\ \A k \in 1..Len(callbacks) :
            /\ ScanIndex(callbacks[k].path) \in 1..Len(calls)
            /\ k > 1 => ScanIndex(callbacks[k - 1].path) <= ScanIndex(callbacks[k].path)

\* C10 witness: a sync of two files to object storage with a callback has
\* returned, the callback having reported progress for both files.
C10_Witness ==
  /\ args.op = "smart_sync"
  /\ pc = "done"
  /\ ret.err = "none"
  /\ args.dst_path = Str(DstPrefix)
  /\ Len(args.scan) = 2
  /\ Len(SelectSeq(effects, IsCopyCall)) = 2
  /\ Len(callbacks) >= 3
  /\ callbacks[1].path = args.scan[1].path
  /\ callbacks[Len(callbacks)].path = args.scan[2].path

(***************************************************************************)
(* The glob family                                                         *)
(***************************************************************************)
\* str.find(c, begin), 1-based; 0 when c does not occur at or after begin
find_from(s, c, begin) ==
  IF \E i \in begin..Len(s) : s[i] = c
  THEN CHOOSE i \in begin..Len(s) : s[i] = c /\ \A j \in begin..(i - 1) : s[j] # c
  ELSE 0

RECURSIVE ungloblize(_)
\* megfile.lib.glob.ungloblize: the concrete patterns a pattern with
\* {a,b} alternations stands for, in the order of the alternatives
ungloblize(glob) ==
  LET begin == find(glob, "{")
      end == IF begin = 0 THEN 0 ELSE find_from(glob, "}", begin)
  IN IF end = 0 THEN <<glob>>
     ELSE LET subpaths == split(SubSeq(glob, begin + 1, end - 1), ",")
              expand[k \in 0..Len(subpaths)] ==
                IF k = 0 THEN <<>>
                ELSE expand[k - 1]
                       \o ungloblize(SubSeq(glob, 1, begin - 1) \o subpaths[k]
                                       \o SubSeq(glob, end + 1, Len(glob)))
          IN expand[Len(subpaths)]

\* os.path.commonprefix
commonprefix(paths) ==
  LET n == CHOOSE m \in 0..Len(paths[1]) :
             /\ \A k \in 1..Len(paths) : Len(paths[k]) >= m /\ SubSeq(paths[k], 1, m) = SubSeq(paths[1], 1, m)
             /\ \A m2 \in (m + 1)..Len(paths[1]) :
                  \E k \in 1..Len(paths) : Len(paths[k]) < m2 \/ SubSeq(paths[k], 1, m2) # SubSeq(paths[1], 1, m2)
  IN SubSeq(paths[1], 1, n)

reversed(s) == [i \in 1..Len(s) |-> s[Len(s) + 1 - i]]

\* megfile.lib.glob.globlize: one pattern for a list of patterns, the common
\* prefix and suffix kept outside a {a,b} alternation of what differs
globlize(glob_list) ==
  IF \A k \in 1..Len(glob_list) : glob_list[k] = glob_list[1] THEN glob_list[1]
  ELSE LET prefix == commonprefix(glob_list)
           rests == [k \in 1..Len(glob_list) |-> slice_from(glob_list[k], Len(prefix))]
           suffix == reversed(commonprefix([k \in 1..Len(rests) |-> reversed(rests[k])]))
           middles == [k \in 1..Len(rests) |-> SubSeq(rests[k], 1, Len(rests[k]) - Len(suffix))]
       IN prefix \o <<"{">> \o join(",", middles) \o <<"}">> \o suffix

\* glob_dict[protocol].append(single_glob) on a dict that keeps insertion order
glob_dict_append(glob_dict, protocol, single_glob) ==
  IF \E k \in 1..Len(glob_dict) : glob_dict[k].protocol = protocol
  THEN [k \in 1..Len(glob_dict) |->
          IF glob_dict[k].protocol = protocol
          THEN [glob_dict[k] EXCEPT !.glob_list = Append(@, single_glob)]
          ELSE glob_dict[k]]
  ELSE Append(glob_dict, [protocol |-> protocol, glob_list |-> <<single_glob>>])

\* smart.py:289-294: the expanded patterns grouped by protocol
glob_dict_of(expanded_glob) ==
  LET build[k \in 0..Len(expanded_glob)] ==
        IF k = 0 THEN <<>>
        ELSE glob_dict_append(build[k - 1], _extract_protocol(Str(expanded_glob[k])).protocol,
                              expanded_glob[k])
  IN build[Len(expanded_glob)]

\* smart.py:282-300
_group_glob(globstr) ==
  LET glob_dict == glob_dict_of(ungloblize(globstr))
  IN [k \in 1..Len(glob_dict) |-> globlize(glob_dict[k].glob_list)]

GlobLocal == <<"/", "t", "/", "*">>
GlobS3 == <<"s", "3", ":", "/", "/", "b", "/", "*">>
GlobLocalThenS3 == <<"{", "/", "t", ",", "s", "3", ":", "/", "/", "b", "}", "/", "*">>
GlobS3ThenLocal == <<"{", "s", "3", ":", "/", "/", "b", ",", "/", "t", "}", "/", "*">>
GlobInterleaved == <<"{", "/", "t", "/", "a", ",", "s", "3", ":", "/", "/", "b", "/", "a", ",", "/", "t", "/", "b", "}">>
GlobHttp == <<"h", "t", "t", "p", ":", "/", "/", "x", "/", "*">>
GlobLocalThenHttp == <<"{", "/", "t", ",", "h", "t", "t", "p", ":", "/", "/", "x", "}", "/", "*">>
GlobHttpAndHttps == <<"{", "h", "t", "t", "p", ":", "/", "/", "x", ",", "h", "t", "t", "p", "s", ":", "/", "/", "x", "}", "/", "a">>
GlobS3TwoKeys == <<"s", "3", ":", "/", "/", "b", "/", "{", "a", ",", "c", "}">>
GlobTwoBraces == <<"{", "/", "t", ",", "s", "3", ":", "/", "/", "b", "}", "/", "{", "a", ",", "c", "}">>

GlobPatterns == {GlobLocal, GlobS3, GlobLocalThenS3, GlobS3ThenLocal, GlobInterleaved, GlobHttp, GlobLocalThenHttp, GlobHttpAndHttps, GlobS3TwoKeys, GlobTwoBraces}

GlobFuncs == {"smart_glob", "smart_iglob", "smart_glob_stat"}

\* smart.py:317-320, 341-344, 366-369: the backend function of a protocol
glob_backend(func, protocol) ==
  IF protocol = FS
  THEN (CASE func = "smart_glob" -> "fs_glob"
          [] func = "smart_iglob" -> "fs_iglob"
          [] func = "smart_glob_stat" -> "fs_glob_stat")
  ELSE IF protocol = S3
       THEN (CASE func = "smart_glob" -> "s3_glob"
               [] func = "smart_iglob" -> "s3_iglob"
               [] func = "smart_glob_stat" -> "s3_glob_stat")
       ELSE "none"

\* What the two backends find, each list in ascending order
FsMatches == { <<>>, <<"/t/a">>, <<"/t/a", "/t/b">> }
S3Matches == { <<>>, <<"s3://b/a">>, <<"s3://b/a", "s3://b/c">> }

InitGlob ==
  /\ _copy_funcs = BuiltinCopyFuncs
  /\ pc = "idle"
  /\ args = NoCall
  /\ ret = NoRet
  /\ InitIdle

\* smart.py:313-314, 337-338, 362-363: the pattern is grouped by protocol
SmartGlobCall ==
  /\ pc = "idle"
  /\ \E func \in GlobFuncs, path \in GlobPatterns, recursive \in BOOLEAN, missing_ok \in BOOLEAN,
        fs_matches \in FsMatches, s3_matches \in S3Matches :
       args' = [ op |-> func, path |-> path, recursive |-> recursive, missing_ok |-> missing_ok,
                 fs_matches |-> fs_matches, s3_matches |-> s3_matches,
                 group_glob_list |-> _group_glob(path), i |-> 1 ]
  /\ pc' = "glob"
  /\ ret' = [err |-> "unset", result |-> <<>>]
  /\ effects' = <<>>
  /\ UNCHANGED <<_copy_funcs, attempts, stream_vars>>

\* smart.py:315-323, 339-347, 364-372: one turn of the loop over the groups
GlobGroup ==
  /\ pc = "glob"
  /\ args.i <= Len(args.group_glob_list)
  /\ LET glob_path == args.group_glob_list[args.i]
         protocol == _extract_protocol(Str(glob_path)).protocol
         backend == glob_backend(args.op, protocol)
         matches == IF protocol = FS THEN args.fs_matches ELSE args.s3_matches
     IN IF backend = "none"
        THEN /\ pc' = "done"
             /\ ret' = [err |-> "UnsupportedError", result |-> <<>>]
             /\ UNCHANGED <<args, effects>>
        ELSE /\ effects' = Append(effects, [ op |-> backend, glob_path |-> glob_path,
                                             recursive |-> args.recursive,
                                             missing_ok |-> args.missing_ok ])
             /\ IF matches = <<>> /\ ~args.missing_ok
                THEN /\ pc' = "done"
                     /\ ret' = [err |-> "FileNotFoundError", result |-> <<>>]
                     /\ args' = args
                ELSE /\ pc' = "glob"
                     /\ ret' = [ret EXCEPT !.result = @ \o matches]
                     /\ args' = [args EXCEPT !.i = @ + 1]
  /\ UNCHANGED <<_copy_funcs, attempts, stream_vars>>

\* smart.py:324, 348-349, 373-374: the concatenated (or chained) results are returned
GlobReturn ==
  /\ pc = "glob"
  /\ args.i > Len(args.group_glob_list)
  /\ pc' = "done"
  /\ ret' = [ret EXCEPT !.err = "none"]
  /\ UNCHANGED <<_copy_funcs, args, effects, attempts, stream_vars>>

NextGlob == SmartGlobCall \/ GlobGroup \/ GlobReturn

SpecGlob == InitGlob /\ [][NextGlob]_vars

\* The protocols of the concrete patterns, each once, in order of first encounter
ProtocolsInOrder(expanded_glob) ==
  LET tag(k) == _extract_protocol(Str(expanded_glob[k])).protocol
      first == {k \in 1..Len(expanded_glob) : \A j \in 1..(k - 1) : tag(j) # tag(k)}
      nth[n \in 0..Cardinality(first)] ==
        IF n = 0 THEN 0 ELSE CHOOSE k \in first : k > nth[n - 1] /\ \A j \in first : j > nth[n - 1] => k <= j
  IN [n \in 1..Cardinality(first) |-> tag(nth[n])]

GlobMatches(protocol) == IF protocol = FS THEN args.fs_matches ELSE args.s3_matches

RECURSIVE ConcatMatches(_)
ConcatMatches(protocols) ==
  IF protocols = <<>> THEN <<>> ELSE GlobMatches(Head(protocols)) \o ConcatMatches(Tail(protocols))

\* C8: smart_glob, smart_iglob and smart_glob_stat call, for each protocol among
\* the pattern's alternatives, in order of first encounter, the backend of that
\* protocol (fs or s3) exactly once and return the backends' results concatenated
\* in that order; a group whose protocol is neither fs nor s3 raises
\* UnsupportedError (once the groups before it have been served).
C8_GlobDispatchPerProtocol ==
  (args.op \in GlobFuncs /\ pc = "done") =>
    LET protocols == ProtocolsInOrder(ungloblize(args.path))
        unsupported == {k \in 1..Len(protocols) : protocols[k] \notin {FS, S3}}
    IN /\ Len(effects) <= Len(protocols)
       /\ \A k \in 1..Len(effects) :
            /\ protocols[k] \in {FS, S3}
            /\ effects[k].op = glob_backend(args.op, protocols[k])
       /\ ret.err = "none" =>
            /\ unsupported = {}
            /\ Len(effects) = Len(protocols)
            /\ ret.result = ConcatMatches(protocols)
       /\ (unsupported # {} /\ ret.err # "FileNotFoundError") => ret.err = "UnsupportedError"

(***************************************************************************)
(* No data loss in cross-protocol smart_rename and smart_move              *)
(***************************************************************************)
\* A call of a copy function (as opposed to the smart_copy call that chose it)
IsBackendCopy(e) == "kwargs" \in DOMAIN e

\* The source files a cross-protocol rename or move takes away when it removes
\* its source: the path itself, or every file the scan found below it
RemovedFiles ==
  IF args.op = "smart_rename" THEN {args.src_path}
  ELSE {args.scan[k].path : k \in 1..Len(args.scan)}

\* C11: when a cross-protocol smart_rename or smart_move has returned without
\* error and removed its source, a copy function was called for every source
\* file that was removed, symbolic links and object-storage destinations
\* included, whatever followlinks is.
C11_RemovedFilesWereCopied ==
  ( /\ args.op \in {"smart_rename", "smart_move"}
    /\ pc = "done"
    /\ ret.err = "none"
    /\ \E k \in 1..Len(effects) : IsRemoval(effects[k]) ) =>
      \A f \in RemovedFiles :
        \E k \in 1..Len(effects) : IsBackendCopy(effects[k]) /\ effects[k].src_path = f

====
